---- MODULE Spec2Model ----
(***************************************************************************)
(* pipe2py.modules.pipeitembuilder: the item builder.  parser turns an     *)
(* ordered list of attribute descriptors (objects exposing key and value)  *)
(* into one nested item, or hands back the upstream item when skip is set. *)
(* pipe and asyncPipe are the two entry points over parser.                *)
(*                                                                         *)
(* Strings that are split are sequences of one-character strings, so that  *)
(* splitting on the separator is computed; path segments and dictionary    *)
(* keys of the built item are strings.  A nested item is a function from   *)
(* segment to node; a node is [v |-> scalar] or [m |-> nested item].       *)
(***************************************************************************)
EXTENDS Integers, Sequences, FiniteSets, TLC

VARIABLES attrs, skip, kwargs, ret, prevRet, retPipe, retAsync

vars == <<attrs, skip, kwargs, ret, prevRet, retPipe, retAsync>>

(* ---------------------------- bounds and inputs ------------------------ *)

MaxAttrs == 3

SEP == "."

\* keys a descriptor may carry: "", ".", "a", "ab", "a.b", "a.b.c"
KeyPool ==
  { <<>>, <<".">>, <<"a">>, <<"a", "b">>, <<"a", ".", "b">>,
    <<"a", ".", "b", ".", "c">> }

Values == {1, 2}

\* a descriptor exposes key and value; an object without a key attribute is
\* the invalid descriptor of the duck-typed access a.key
Descriptors == [key : KeyPool, value : Values] \cup [value : {1}]

RECURSIVE SeqsUpTo(_, _)
SeqsUpTo(S, n) ==
  IF n = 0 THEN { <<>> }
  ELSE LET shorter == SeqsUpTo(S, n - 1)
       IN shorter \cup { Append(s, x) : s \in { t \in shorter : Len(t) = n - 1 }, x \in S }

EmptyDict == [k \in {} |-> 0]

Put(d, k, x) == [j \in DOMAIN d \cup {k} |-> IF j = k THEN x ELSE d[j]]

\* the upstream item {"x": 1}
Feeds == { [x |-> [v |-> 1]] }

\* the keyword arguments of a call: with or without 'feed'
KwargsPool == { EmptyDict } \cup { [feed |-> u] : u \in Feeds }

(* ------------------------------- outcomes ------------------------------ *)

Pending == [pending |-> TRUE]

Return(feed, skp) == [feed |-> feed, skip |-> skp]

Raise(exc, line) == [exc |-> exc, line |-> line]

Returned(r) == "feed" \in DOMAIN r

Raised(r) == "exc" \in DOMAIN r

(* ----------------------- the path-merge builder ------------------------ *)

\* str.split(SEP) over the characters of s
RECURSIVE splitAcc(_, _, _)
splitAcc(s, cur, out) ==
  IF s = <<>> THEN Append(out, cur)
  ELSE IF Head(s) = SEP THEN splitAcc(Tail(s), "", Append(out, cur))
  ELSE splitAcc(Tail(s), cur \o Head(s), out)

split(s) == splitAcc(s, "", <<>>)

\* a key is empty when it is zero-length or holds only separators
EmptyKey(k) == \A i \in 1..Len(split(k)) : split(k)[i] = ""

\* walk the segments from the root, creating (or replacing a non-mapping
\* by) an intermediate mapping for every segment but the last, and set the
\* last segment to the value
RECURSIVE set(_, _, _)
set(item, segs, value) ==
  LET s0 == Head(segs)
  IN IF Len(segs) = 1 THEN Put(item, s0, [v |-> value])
     ELSE LET sub == IF s0 \in DOMAIN item /\ "m" \in DOMAIN item[s0]
                     THEN item[s0].m ELSE EmptyDict
          IN Put(item, s0, [m |-> set(sub, Tail(segs), value)])

\* the ordered (key, value) pairs of the flat entries, in the order supplied
cdicts(ds) ==
  [i \in 1..Len(ds) |-> LET k == CHOOSE j \in DOMAIN ds[i] : TRUE
                        IN <<k, ds[i][k]>>]

\* fold the pairs left to right into a fresh nested item; an empty key
\* stops the construction with InvalidAttribute
RECURSIVE merge(_, _)
merge(item, pairs) ==
  IF pairs = <<>> THEN [item |-> item, exc |-> "none"]
  ELSE LET k == Head(pairs)[1]
           value == Head(pairs)[2]
       IN IF EmptyKey(k) THEN [item |-> item, exc |-> "InvalidAttribute"]
          ELSE merge(set(item, split(k), value), Tail(pairs))

DotDict(pairs) == merge(EmptyDict, pairs)

(* -------------------------------- parser ------------------------------- *)

HasKey(a) == "key" \in DOMAIN a

\* variants of line 66 with a slip in the comprehension
dicts_tail(as) ==
  [i \in 1..(Len(as) - 1) |-> [k \in {as[i + 1].key} |-> as[i + 1].value]]

dicts_reversed(as) ==
  [i \in 1..Len(as) |->
     [k \in {as[Len(as) + 1 - i].key} |-> as[Len(as) + 1 - i].value]]

dicts_truthy(as) ==
  LET keep == SelectSeq(as, LAMBDA a : a.key # <<>>)
  IN [i \in 1..Len(keep) |-> [k \in {keep[i].key} |-> keep[i].value]]

\* line 66: one flat entry {a.key: a.value} per descriptor, in order
dicts(as) == [i \in 1..Len(as) |-> [k \in {as[i].key} |-> as[i].value]]

\* the characters of a key as one string
RECURSIVE join(_)
join(s) == IF s = <<>> THEN "" ELSE Head(s) \o join(Tail(s))

\* the pairs as one flat dictionary, keys left unsplit
RECURSIVE flat(_, _)
flat(item, pairs) ==
  IF pairs = <<>> THEN item
  ELSE flat(Put(item, join(Head(pairs)[1]), [v |-> Head(pairs)[2]]), Tail(pairs))

\* variants of lines 66-68: the DotDict wrapper forgotten; a builder failure
\* swallowed and the item built so far returned; the descriptors an
\* iterator that an earlier call has consumed
parser_flat(as, skp, kw) ==
  IF \E i \in 1..Len(as) : ~HasKey(as[i]) THEN Raise("AttributeError", 66)
  ELSE IF skp
       THEN IF "feed" \in DOMAIN kw THEN Return(kw.feed, skp)
            ELSE Raise("KeyError", 67)
       ELSE Return(flat(EmptyDict, cdicts(dicts(as))), skp)

parser_partial(as, skp, kw) ==
  IF \E i \in 1..Len(as) : ~HasKey(as[i]) THEN Raise("AttributeError", 66)
  ELSE IF skp
       THEN IF "feed" \in DOMAIN kw THEN Return(kw.feed, skp)
            ELSE Raise("KeyError", 67)
       ELSE Return(DotDict(cdicts(dicts(as))).item, skp)

parser_exhausted(as, skp, kw) ==
  LET left == IF ret = Pending THEN as ELSE <<>>
  IN IF \E i \in 1..Len(left) : ~HasKey(left[i]) THEN Raise("AttributeError", 66)
     ELSE IF skp
          THEN IF "feed" \in DOMAIN kw THEN Return(kw.feed, skp)
               ELSE Raise("KeyError", 67)
          ELSE LET built == DotDict(cdicts(dicts(left)))
               IN IF built.exc # "none" THEN Raise(built.exc, 67)
                  ELSE Return(built.item, skp)

\* lines 66-68.  Line 66 reads a.key of every descriptor before skip is
\* looked at; line 67 reads kwargs['feed'] only when skip is set.
parser(as, skp, kw) ==
  IF \E i \in 1..Len(as) : ~HasKey(as[i]) THEN Raise("AttributeError", 66)
  ELSE IF skp
       THEN IF "feed" \in DOMAIN kw THEN Return(kw.feed, skp)
            ELSE Raise("KeyError", 67)
       ELSE LET built == DotDict(cdicts(dicts(as)))
            IN IF built.exc # "none" THEN Raise(built.exc, 67)
               ELSE Return(built.item, skp)

\* a variant of line 112 that drops the skip flag
asyncPipe_noskip(as, skp, kw) == parser(as, FALSE, kw)

asyncPipe(as, skp, kw) == parser(as, skp, kw)

pipe(as, skp, kw) == parser(as, skp, kw)

(* ----------------------------- state machine --------------------------- *)

Init ==
  /\ attrs \in SeqsUpTo(Descriptors, MaxAttrs)
  /\ skip \in BOOLEAN
  /\ kwargs \in KwargsPool
  /\ ret = Pending
  /\ prevRet = Pending
  /\ retPipe = Pending
  /\ retAsync = Pending

\* a direct call of parser; the previous outcome is kept for comparison
Parser ==
  /\ prevRet' = ret
  /\ ret' = parser(attrs, skip, kwargs)
  /\ UNCHANGED <<attrs, skip, kwargs, retPipe, retAsync>>

Pipe ==
  /\ retPipe' = pipe(attrs, skip, kwargs)
  /\ UNCHANGED <<attrs, skip, kwargs, ret, prevRet, retAsync>>

AsyncPipe ==
  /\ retAsync' = asyncPipe(attrs, skip, kwargs)
  /\ UNCHANGED <<attrs, skip, kwargs, ret, prevRet, retPipe>>

Next == Parser \/ Pipe \/ AsyncPipe

Spec == Init /\ [][Next]_vars

(* --------------------------- reading an item --------------------------- *)

Absent == [absent |-> TRUE]

\* the node reached by walking segs from the root of item
RECURSIVE lookup(_, _)
lookup(item, segs) ==
  LET s0 == Head(segs)
  IN IF s0 \notin DOMAIN item THEN Absent
     ELSE IF Len(segs) = 1 THEN item[s0]
     ELSE IF "m" \in DOMAIN item[s0] THEN lookup(item[s0].m, Tail(segs))
     ELSE Absent

LeafAt(item, segs, value) == lookup(item, segs) = [v |-> value]

\* every proper prefix of segs reaches a nested mapping
ChainTo(item, segs) ==
  \A n \in 1..(Len(segs) - 1) : "m" \in DOMAIN lookup(item, SubSeq(segs, 1, n))

IsPrefix(p, q) == Len(p) <= Len(q) /\ SubSeq(q, 1, Len(p)) = p

ProperPrefix(p, q) == IsPrefix(p, q) /\ Len(p) < Len(q)

Conflict(p, q) == IsPrefix(p, q) \/ IsPrefix(q, p)

path(i) == split(attrs[i].key)

Idx == 1..Len(attrs)

AllHaveKey == \A i \in Idx : HasKey(attrs[i])

HasInvalid ==
  \E i \in Idx : ~HasKey(attrs[i]) \/ EmptyKey(attrs[i].key)

Called(r) == r # Pending

\* the merged item of a direct parser call
Merged == Returned(ret) /\ ~skip

\* the error kinds of the taxonomy, as the exceptions that carry them
InvalidAttribute == {"InvalidAttribute", "AttributeError"}

UpstreamMissing == {"KeyError"}

(* -------------------------------- claims ------------------------------- *)

\* C1 (as stated): a parser call with skip set and an upstream item supplied
\* returns exactly that item with the flag, whatever the descriptors are.
C1_SkipReturnsUpstream ==
  (Called(ret) /\ skip /\ "feed" \in DOMAIN kwargs)
    => ret = Return(kwargs.feed, TRUE)

\* C2: in a merged item, every descriptor whose path conflicts with no other
\* descriptor's path is reached by a chain of nested mappings along its
\* segments, ending in a leaf that holds the descriptor's value.
C2_DottedPathChain ==
  Merged =>
    \A i \in Idx :
      (\A j \in Idx \ {i} : ~Conflict(path(i), path(j)))
        => /\ ChainTo(ret.feed, path(i))
           /\ LeafAt(ret.feed, path(i), attrs[i].value)

C2_Witness ==
  /\ Merged
  /\ Len(attrs) >= 2
  /\ \E i \in Idx :
       /\ Len(path(i)) = 3
       /\ \A j \in Idx \ {i} : ~Conflict(path(i), path(j))

\* C3: for a non-empty sequence of descriptors with pairwise distinct keys
\* holding no separator, the merged item has exactly one top-level entry per
\* descriptor, mapping its key to its value, and no other key.
C3_FlatKeys ==
  ( /\ Merged
    /\ attrs # <<>>
    /\ \A i \in Idx : \A n \in 1..Len(attrs[i].key) : attrs[i].key[n] # SEP
    /\ \A i, j \in Idx : i # j => attrs[i].key # attrs[j].key )
  => /\ DOMAIN ret.feed = { join(attrs[i].key) : i \in Idx }
     /\ Cardinality(DOMAIN ret.feed) = Len(attrs)
     /\ \A i \in Idx : ret.feed[join(attrs[i].key)] = [v |-> attrs[i].value]

C3_Witness ==
  /\ Merged
  /\ Len(attrs) = 2
  /\ \A i \in Idx : \A n \in 1..Len(attrs[i].key) : attrs[i].key[n] # SEP
  /\ \A i, j \in Idx : i # j => attrs[i].key # attrs[j].key
  /\ \E i, j \in Idx : attrs[i].value # attrs[j].value

\* C4 (as stated): of any two descriptors with the same full path and
\* different values, the later one's value is the leaf at that path, whatever
\* other descriptors stand between or around them.
C4_LaterOfAnyTwoWins ==
  Merged =>
    \A i, j \in Idx :
      (i < j /\ attrs[i].key = attrs[j].key /\ attrs[i].value # attrs[j].value)
        => LeafAt(ret.feed, path(j), attrs[j].value)

\* C4 (amended): of two descriptors with the same full path and different
\* values, the later one's value is the leaf at that path provided no
\* descriptor after it has that path, a prefix of it or an extension of it;
\* descriptors with valid keys never make the call fail.
C4_LastWriteWins ==
  /\ Merged =>
       \A i, j \in Idx :
         ( /\ i < j
           /\ attrs[i].key = attrs[j].key
           /\ attrs[i].value # attrs[j].value
           /\ \A n \in Idx : n > j => ~Conflict(path(n), path(j)) )
         => LeafAt(ret.feed, path(j), attrs[j].value)
  /\ (Called(ret) /\ ~skip /\ ~HasInvalid) => Returned(ret)

C4_Witness ==
  /\ Merged
  /\ Len(attrs) = 3
  /\ attrs[1].key = attrs[3].key
  /\ attrs[1].value # attrs[3].value
  /\ attrs[2].key # attrs[1].key

\* C5: a prefix conflict is resolved in the order supplied.  Of two
\* descriptors of which one's path is a proper prefix of the other's, the
\* later one (when no descriptor after it touches its path) holds its leaf
\* and the earlier one's leaf is gone; [a.b=1, a.b.c=2] gives
\* {a: {b: {c: 2}}} and [a.b.c=2, a.b=1] gives {a: {b: 1}}.
C5_PrefixConflictOrder ==
  /\ Merged =>
       \A i, j \in Idx :
         ( /\ i < j
           /\ (ProperPrefix(path(i), path(j)) \/ ProperPrefix(path(j), path(i)))
           /\ \A n \in Idx : n > j => ~Conflict(path(n), path(j)) )
         => /\ LeafAt(ret.feed, path(j), attrs[j].value)
            /\ "v" \notin DOMAIN lookup(ret.feed, path(i))
            /\ ProperPrefix(path(i), path(j))
                 => "m" \in DOMAIN lookup(ret.feed, path(i))
            /\ ProperPrefix(path(j), path(i))
                 => lookup(ret.feed, path(i)) = Absent
  /\ ( /\ Called(ret) /\ ~skip
       /\ attrs = << [key |-> <<"a", ".", "b">>, value |-> 1],
                     [key |-> <<"a", ".", "b", ".", "c">>, value |-> 2] >> )
     => ret = Return([a |-> [m |-> [b |-> [m |-> [c |-> [v |-> 2]]]]]], FALSE)
  /\ ( /\ Called(ret) /\ ~skip
       /\ attrs = << [key |-> <<"a", ".", "b", ".", "c">>, value |-> 2],
                     [key |-> <<"a", ".", "b">>, value |-> 1] >> )
     => ret = Return([a |-> [m |-> [b |-> [v |-> 1]]]], FALSE)

C5_Witness ==
  /\ Merged
  /\ attrs = << [key |-> <<"a", ".", "b">>, value |-> 1],
                [key |-> <<"a", ".", "b", ".", "c">>, value |-> 2] >>

C7_UpstreamMissing ==
  (Called(ret) /\ skip /\ "feed" \notin DOMAIN kwargs)
    => /\ Raised(ret)
       /\ ret.exc \in UpstreamMissing
       /\ ret.line = 67

====
